---------------------------- MODULE Spec2Model ----------------------------
(***************************************************************************)
(* A model of the two scripts of pypi-typing:                              *)
(*   scripts/parse_pypi.py       the typed-distribution classifier         *)
(*   scripts/detect_projects.py  the new-package issue reporter            *)
(*                                                                         *)
(* Specifications:                                                         *)
(*   Spec         main / process_package of parse_pypi.py, over runs       *)
(*   FairSpec     the same, every pending response eventually arriving     *)
(*   SpecArchive  all_py_files_in_source_are_in_py_typed_dirs              *)
(*   SpecRelease  the release selection of fetch_latest_pypi_release       *)
(*   SpecNames    get_package_names                                        *)
(*   SpecIssue    main / create_or_update_issue of detect_projects.py      *)
(***************************************************************************)
EXTENDS Integers, Sequences, FiniteSets, TLC

VARIABLES
    \* ---- parse_pypi.py: files on disk
    inputFile,      \* data rows of INPUT_FILE: the "project" column, in file order
    outputExists,   \* Path.is_file(OUTPUT_FILE)
    outputFile,     \* lines of OUTPUT_FILE, the header line included
    \* ---- parse_pypi.py: one run of main()
    mainPc,         \* "idle" | "gather" | "finished"
    runs,           \* number of runs of main() started so far
    packages,       \* main: packages
    processed,      \* main: processed
    skipped,        \* main: skipped
    tasks,          \* main: tasks, one record per process_package coroutine
    requests,       \* requests issued on the session in this run: <<kind, package>> -> count
    startLen,       \* Len(outputFile) when the run started (history)
    \* ---- all_py_files_in_source_are_in_py_typed_dirs
    source,         \* the archive: a sequence of entries
    sourceKind,     \* "zip" | "tar"
    typedResult,    \* << >> before the call, then << the boolean returned >>
    \* ---- fetch_latest_pypi_release
    releases,       \* releases[version] of the JSON answer
    release_info,   \* << >> before the call, then << the descriptor selected >>
    \* ---- get_package_names
    csvRows,        \* the "project" column of the file read
    max_count,      \* the keyword argument
    names_out,      \* << >> before the call, then << the list returned >>
    \* ---- detect_projects.py
    original,       \* get_original_packages()
    local,          \* get_local_packages()
    issue,          \* the open issue of the tracker with the title, or NoIssue
    issue_body      \* << >>, or << the body composed by create_or_update_issue >>

vars == << inputFile, outputExists, outputFile, mainPc, runs, packages, processed,
           skipped, tasks, requests, startLen, source, sourceKind, typedResult,
           releases, release_info, csvRows, max_count, names_out,
           original, local, issue, issue_body >>

parseVars   == << inputFile, outputExists, outputFile, mainPc, runs, packages,
                  processed, skipped, tasks, requests, startLen >>
archiveVars == << source, sourceKind, typedResult >>
releaseVars == << releases, release_info >>
namesVars   == << csvRows, max_count, names_out >>
issueVars   == << original, local, issue, issue_body >>

(***************************************************************************)
(* Bounds of the model.                                                    *)
(***************************************************************************)
MaxInputLen == 2      \* rows of INPUT_FILE
MaxRuns     == 2      \* runs of main()
MaxEntries  == 3      \* entries of an archive
MaxReleases == 3      \* release descriptors of the latest version
MaxRows     == 4      \* rows of the file given to get_package_names
MaxCountArg == 3      \* largest max_count tried
MaxProjects == 24     \* size of the universe of project names of detect_projects

(***************************************************************************)
(* Sequence helpers.                                                       *)
(***************************************************************************)
Range(s) == {s[i] : i \in 1..Len(s)}

SeqsUpTo(S, n) == UNION {[1..k -> S] : k \in 0..n}

Min(a, b) == IF a <= b THEN a ELSE b

NoDuplicates(s) == \A i, j \in 1..Len(s) : i # j => s[i] # s[j]


(***************************************************************************)
(* pathlib.Path, for the relative paths of archive members.  A path is the *)
(* sequence of its components; Path(".") is the empty sequence.            *)
(***************************************************************************)
PathName(path) == IF Len(path) = 0 THEN "" ELSE path[Len(path)]

PathParent(path) == IF Len(path) = 0 THEN << >> ELSE SubSeq(path, 1, Len(path) - 1)

\* Path.parents: every proper prefix, the direct parent and Path(".") included.
PathParents(path) == {SubSeq(path, 1, k) : k \in 0..(Len(path) - 1)}

\* Path.suffix of the member names the model uses: the part of the final
\* component from its last dot on, empty when the name has no dot.
PathSuffix(path) ==
    CASE PathName(path) \in {"a.py", "__init__.py"}   -> ".py"
      [] PathName(path) \in {"b.pyi", "__init__.pyi"} -> ".pyi"
      [] PathName(path) = "py.typed"                  -> ".typed"
      [] OTHER                                        -> ""

(***************************************************************************)
(* Archive members.  type is "file" (a regular file), "dir" (a directory)  *)
(* or "link" (a member that is neither: a symbolic or hard link).          *)
(*   zipfile: ZipInfo.is_dir() holds of "dir" only                         *)
(*   tarfile: TarInfo.isfile() holds of "file" only                        *)
(***************************************************************************)
Entry(path, size, type) == [path |-> path, size |-> size, type |-> type]

FilePaths ==
    { <<"a.py">>, <<"pkg", "a.py">>, <<"pkg", "sub", "b.pyi">>,
      <<"etc", "__init__.py">>, <<"pkg", "__init__.py">>, <<"etc", "__init__.pyi">>,
      <<"py.typed">>, <<"pkg", "py.typed">>, <<"pkg", "sub", "py.typed">>,
      <<"pkg", "README">> }

EntryUniverse ==
    {Entry(p, sz, "file") : p \in FilePaths, sz \in {0, 1}}
      \cup {Entry(<<"a.py">>, 1, "link"), Entry(<<"pkg", "py.typed">>, 0, "link")}
      \cup {Entry(<<"pkg">>, 0, "dir"), Entry(<<"etc", "a.py">>, 0, "dir")}

ZipIsDir(e) == e.type = "dir"

TarIsFile(e) == e.type = "file"

\* IsEmptyInit without the size test
IsEmptyInit_AnySize(e) == PathName(e.path) = "__init__.py"

IsEmptyInit(e) == PathName(e.path) = "__init__.py" /\ e.size = 0

\* The member filter of the ZipFile branch.
ZipKeeps(e) == (~ZipIsDir(e)) /\ ~IsEmptyInit(e)

\* The member filter of the TarFile branch.
TarKeeps(e) == TarIsFile(e) /\ ~IsEmptyInit(e)

EntryPaths(members) == [i \in 1..Len(members) |-> members[i].path]

\* path_iter
PathIter(kind, src) ==
    IF kind = "zip" THEN EntryPaths(SelectSeq(src, ZipKeeps))
                    ELSE EntryPaths(SelectSeq(src, TarKeeps))

HasPySuffix(path) == PathSuffix(path) \in {".py", ".pyi"}

IsPyTypedPath(path) == (~HasPySuffix(path)) /\ PathName(path) = "py.typed"

\* all_python_files after the loop
AllPythonFiles(paths) == SelectSeq(paths, HasPySuffix)

\* py_typed_dirs after the loop
PyTypedDirs(paths) ==
    LET markers == SelectSeq(paths, IsPyTypedPath)
    IN  [i \in 1..Len(markers) |-> PathParent(markers[i])]

\* any(py_typed_dir in path.parents for py_typed_dir in py_typed_dirs)
InSomePyTypedDir(path, py_typed_dirs) ==
    \E i \in 1..Len(py_typed_dirs) : py_typed_dirs[i] \in PathParents(path)

all_py_files_in_source_are_in_py_typed_dirs(kind, src) ==
    LET paths            == PathIter(kind, src)
        py_typed_dirs    == PyTypedDirs(paths)
        all_python_files == AllPythonFiles(paths)
    IN  IF Len(py_typed_dirs) = 0 THEN FALSE
        ELSE IF Len(all_python_files) = 0 THEN FALSE
        ELSE \A i \in 1..Len(all_python_files) :
                 InSomePyTypedDir(all_python_files[i], py_typed_dirs)

(***************************************************************************)
(* SpecArchive: an archive of up to MaxEntries members is put together and *)
(* handed to the evaluator.                                                *)
(***************************************************************************)
ArchiveIdle ==
    /\ source = << >>
    /\ sourceKind = "zip"
    /\ typedResult = << >>

AddEntry(e) ==
    /\ typedResult = << >>
    /\ Len(source) < MaxEntries
    /\ source' = Append(source, e)
    /\ UNCHANGED << sourceKind, typedResult >>
    /\ UNCHANGED << parseVars, releaseVars, namesVars, issueVars >>

ScanSource ==
    /\ typedResult = << >>
    /\ typedResult' = << all_py_files_in_source_are_in_py_typed_dirs(sourceKind, source) >>
    /\ UNCHANGED << source, sourceKind >>
    /\ UNCHANGED << parseVars, releaseVars, namesVars, issueVars >>

(***************************************************************************)
(* fetch_latest_pypi_release: the selection among releases[version].       *)
(***************************************************************************)
Release(packagetype, filename) == [packagetype |-> packagetype, filename |-> filename]

NoRelease == Release("", "")

ReleaseUniverse ==
    { Release("bdist_wheel", "p-1.0-py3-none-any.whl"),
      Release("bdist_wheel", "p-1.0-cp311-linux.whl"),
      Release("sdist", "p-1.0.tar.gz"),
      Release("sdist", "p-1.0.zip"),
      Release("sdist", "p-1.0.tar.bz2"),
      Release("bdist_egg", "p-1.0-py2.7.egg") }

\* key=lambda x: bool(x["packagetype"] == "bdist_wheel")
IsWheelKey(x) == x.packagetype = "bdist_wheel"

NotWheelKey(x) == ~IsWheelKey(x)

\* sorted(list, key=...): a stable sort on a boolean key, False before True.
SortedByWheelKey(list) == SelectSeq(list, NotWheelKey) \o SelectSeq(list, IsWheelKey)

\* sorted(...)[-1]; on an empty list the index raises IndexError.
SelectRelease(list) ==
    LET ordered == SortedByWheelKey(list)
    IN  IF Len(ordered) = 0
        THEN [raised |-> TRUE, release |-> NoRelease]
        ELSE [raised |-> FALSE, release |-> ordered[Len(ordered)]]

AddRelease(r) ==
    /\ release_info = << >>
    /\ Len(releases) < MaxReleases
    /\ releases' = Append(releases, r)
    /\ UNCHANGED release_info
    /\ UNCHANGED << parseVars, archiveVars, namesVars, issueVars >>

ResolveRelease ==
    /\ release_info = << >>
    /\ release_info' = << SelectRelease(releases) >>
    /\ UNCHANGED releases
    /\ UNCHANGED << parseVars, archiveVars, namesVars, issueVars >>

(***************************************************************************)
(* get_package_names.                                                      *)
(***************************************************************************)
NoneCount == -1          \* max_count=None
MainMaxCount == 100      \* main: get_package_names(INPUT_FILE, max_count=100)

\* "if max_count is None or num <= max_count", num counting rows from 0
KeepsRow(num, maxc) == maxc = NoneCount \/ num <= maxc

\* The number of rows appended by the loop over enumerate(reader): it ends at
\* the first num the test rejects (break), or with the file.
RowsRead(rows, maxc) ==
    IF \E num \in 0..(Len(rows) - 1) : ~KeepsRow(num, maxc)
    THEN CHOOSE num \in 0..(Len(rows) - 1) :
             /\ ~KeepsRow(num, maxc)
             /\ \A m \in 0..(num - 1) : KeepsRow(m, maxc)
    ELSE Len(rows)

get_package_names(rows, maxc) == [k \in 1..RowsRead(rows, maxc) |-> rows[k]]

CallGetPackageNames ==
    /\ names_out = << >>
    /\ names_out' = << get_package_names(csvRows, max_count) >>
    /\ UNCHANGED << csvRows, max_count >>
    /\ UNCHANGED << parseVars, archiveVars, releaseVars, issueVars >>

(***************************************************************************)
(* detect_projects.py.  Project names are numbered 1..MaxProjects in their *)
(* sorted (code point) order, so that sorted() orders them as numbers.     *)
(***************************************************************************)
Projects == 1..MaxProjects

NON_EXISTENT_PROJECTS == {1, 17}     \* "aaaaaaaaa", "pyairports"

max_display == 20

\* sorted(packages)
RECURSIVE Sorted(_)
Sorted(S) ==
    IF S = {} THEN << >>
    ELSE LET m == CHOOSE x \in S : \A y \in S : x <= y
         IN  << m >> \o Sorted(S \ {m})

\* Displayed without the slice
Displayed_All(sorted_packages) == sorted_packages

\* sorted_packages[:max_display]
Displayed(sorted_packages) ==
    SubSeq(sorted_packages, 1, Min(max_display, Len(sorted_packages)))

Line(kind, n) == [kind |-> kind, n |-> n]

\* The body as its lines: the count line, one "- pkg" line per displayed
\* package, and the "... and N more." line.
IssueBody(pkgs) ==
    LET count           == Cardinality(pkgs)
        sorted_packages == Sorted(pkgs)
        displayed       == Displayed(sorted_packages)
        hidden_count    == count - max_display
    IN  << Line(IF count # 1 THEN "count_plural" ELSE "count_singular", count) >>
          \o [i \in 1..Len(displayed) |-> Line("item", displayed[i])]
          \o (IF hidden_count > 0 THEN << Line("more", hidden_count) >> ELSE << >>)

\* An open issue the search returns: whether its title is issue_title, whether
\* "new package" is among its labels, and its body.
Issue(titled, labelled, body) == [titled |-> titled, labelled |-> labelled, body |-> body]

IsExisting(i) == i.titled /\ i.labelled

\* The tracker after create_or_update_issue(pkgs): the first matching issue is
\* edited, or a new issue is created.
TrackerAfter(open, pkgs) ==
    LET body == IssueBody(pkgs)
    IN  IF \E k \in 1..Len(open) : IsExisting(open[k])
        THEN LET k == CHOOSE k \in 1..Len(open) :
                          /\ IsExisting(open[k])
                          /\ \A j \in 1..(k - 1) : ~IsExisting(open[j])
             IN  [open EXCEPT ![k].body = body]
        ELSE Append(open, Issue(TRUE, TRUE, body))

\* new_packages = original - local - NON_EXISTENT_PROJECTS
NewPackages == (original \ local) \ NON_EXISTENT_PROJECTS

\* main() of detect_projects.py; with no new package it does nothing.
DetectMain ==
    /\ issue_body = << >>
    /\ NewPackages # {}
    /\ issue_body' = << IssueBody(NewPackages) >>
    /\ issue' = TrackerAfter(issue, NewPackages)
    /\ UNCHANGED << original, local >>
    /\ UNCHANGED << parseVars, archiveVars, releaseVars, namesVars >>

(***************************************************************************)
(* parse_pypi.py: the output table.  Python values are "True", "False" and *)
(* "None"; csv.writer writes None as the empty field.                      *)
(***************************************************************************)
Packages == {"a", "b"}

HeaderRow == << "package", "has_py_typed", "has_types_package" >>

\* csv.writer's rendering of one value
CsvField(v) == IF v = "None" THEN "" ELSE v

CsvRow(package, has_py_typed, has_types_package) ==
    << package, CsvField(has_py_typed), CsvField(has_types_package) >>

\* append_result_to_csv: the lines of OUTPUT_FILE afterwards
append_result_to_csv(exists, lines, package, has_py_typed, has_types_package) ==
    (IF exists THEN lines ELSE << HeaderRow >>)
        \o << CsvRow(package, has_py_typed, has_types_package) >>

\* csv.DictReader: the first line names the columns
ColumnOf(header, name) == CHOOSE k \in 1..Len(header) : header[k] = name

\* load_processed_packages
load_processed_packages(exists, lines) ==
    IF ~exists THEN {}
    ELSE {lines[n][ColumnOf(lines[1], "package")] : n \in 2..Len(lines)}

(***************************************************************************)
(* Answers of the network.                                                 *)
(***************************************************************************)
TransportError == [exc |-> TRUE, status |-> 0]

HttpStatus(status) == [exc |-> FALSE, status |-> status]

\* response.raise_for_status()
RaisesForStatus(status) == status >= 400

\* Metadata answers: the status, whether the JSON has the keys read, and
\* releases[version].
SampleReleaseLists ==
    { << >>,
      << Release("sdist", "p-1.0.tar.gz"), Release("bdist_wheel", "p-1.0-py3-none-any.whl") >>,
      << Release("sdist", "p-1.0.tar.gz") >>,
      << Release("sdist", "p-1.0.zip") >>,
      << Release("sdist", "p-1.0.tar.bz2") >>,
      << Release("sdist", "p-1.0.tar.gz"), Release("bdist_egg", "p-1.0-py2.7.egg") >> }

MetadataAnswers ==
    { [exc |-> TRUE, status |-> 0, wellFormed |-> FALSE, releases |-> << >>],
      [exc |-> FALSE, status |-> 404, wellFormed |-> FALSE, releases |-> << >>],
      [exc |-> FALSE, status |-> 200, wellFormed |-> FALSE, releases |-> << >>] }
      \cup {[exc |-> FALSE, status |-> 200, wellFormed |-> TRUE, releases |-> l] :
                l \in SampleReleaseLists}

\* Download answers: the status and the body, which is a zip archive, a gzipped
\* tar archive, or something else (an error page).
TypedMembers == << Entry(<<"pkg", "py.typed">>, 0, "file"), Entry(<<"pkg", "a.py">>, 1, "file") >>

UntypedMembers == << Entry(<<"a.py">>, 1, "file") >>

Body(format, members) == [format |-> format, members |-> members]

SampleBodies ==
    {Body(f, m) : f \in {"zip", "targz"}, m \in {TypedMembers, UntypedMembers}}
      \cup {Body("other", << >>)}

DownloadAnswers ==
    {[exc |-> TRUE, status |-> 0, body |-> Body("other", << >>)]}
      \cup {[exc |-> FALSE, status |-> st, body |-> b] : st \in {200, 404}, b \in SampleBodies}

StubAnswers == {TransportError} \cup {HttpStatus(st) : st \in {200, 404, 500}}

(***************************************************************************)
(* release_contains_py_typed after the body is read: the archive is opened *)
(* by package type and file name and scanned.  The result is the boolean   *)
(* returned, or raised = TRUE for AssertionError, BadZipFile or ReadError. *)
(***************************************************************************)
\* str.endswith, for the file names of the model
EndsWith(filename, suffix) ==
    CASE suffix = ".whl"    -> filename \in {"p-1.0-py3-none-any.whl", "p-1.0-cp311-linux.whl"}
      [] suffix = ".tar.gz" -> filename = "p-1.0.tar.gz"
      [] suffix = ".zip"    -> filename = "p-1.0.zip"
      [] OTHER              -> FALSE

Raised == [raised |-> TRUE, typed |-> FALSE]

Returned(b) == [raised |-> FALSE, typed |-> b]

\* with zipfile.ZipFile(body) as zf
ScanAsZip(body) ==
    IF body.format # "zip" THEN Raised
    ELSE Returned(all_py_files_in_source_are_in_py_typed_dirs("zip", body.members))

\* with tarfile.open(fileobj=body, mode="r:gz") as zf
ScanAsTarGz(body) ==
    IF body.format # "targz" THEN Raised
    ELSE Returned(all_py_files_in_source_are_in_py_typed_dirs("tar", body.members))

ScanBody(release, body) ==
    IF release.packagetype = "bdist_wheel"
    THEN IF ~EndsWith(release.filename, ".whl") THEN Raised ELSE ScanAsZip(body)
    ELSE IF release.packagetype = "sdist"
    THEN IF EndsWith(release.filename, ".tar.gz") THEN ScanAsTarGz(body)
         ELSE IF EndsWith(release.filename, ".zip") THEN ScanAsZip(body)
         ELSE Raised
    ELSE Raised

\* The download answer as release_contains_py_typed treats it: only a
\* transport error raises before the body is opened.
DownloadRaises(answer) == answer.exc

\* has_types_stub_package without the 404 branch
has_types_stub_package_No404(answer) ==
    IF answer.exc THEN "None"
    ELSE IF answer.status = 200 THEN "True"
    ELSE "None"

\* has_types_stub_package: the value returned for an answer
has_types_stub_package(answer) ==
    IF answer.exc THEN "None"
    ELSE IF answer.status = 200 THEN "True"
    ELSE IF answer.status = 404 THEN "False"
    ELSE "None"

\* NeedsStubLookup without the test
NeedsStubLookup_Always(has_py_typed) == TRUE

\* process_package: "if not has_py_typed"
NeedsStubLookup(has_py_typed) == ~has_py_typed

\* IsSkipped without the test
IsSkipped_Never(pkg, done) == FALSE

\* main: "if pkg in processed"
IsSkipped(pkg, done) == pkg \in done

(***************************************************************************)
(* process_package: one coroutine per scheduled package.  pc is the await  *)
(* the coroutine is suspended at, or its outcome:                          *)
(*   "RESOLVING"      the metadata request of fetch_latest_pypi_release    *)
(*   "DOWNLOADING"    the artifact request of release_contains_py_typed    *)
(*   "CHECKING_STUB"  the request of has_types_stub_package                *)
(*   "DONE"           the row is appended                                  *)
(*   "FAILED"         the except branch: logged, no row                    *)
(* download, scanned, stub, stubLookups and rowAt record what the task saw *)
(* and did (the answers, whether the archive was scanned, the number of    *)
(* stub lookups, the line of OUTPUT_FILE it wrote).                        *)
(***************************************************************************)
NoAnswer == [exc |-> FALSE, status |-> 0]

PyBool(b) == IF b THEN "True" ELSE "False"

Task(pkg, i) ==
    [pkg |-> pkg, i |-> i, pc |-> "RESOLVING", release |-> NoRelease,
     download |-> NoAnswer, scanned |-> FALSE,
     has_py_typed |-> "unset", has_types_package |-> "None",
     stub |-> NoAnswer, stubLookups |-> 0, rowAt |-> 0]

RequestKinds == {"metadata", "download", "stub"}

NoRequests == [kp \in RequestKinds \X Packages |-> 0]

Sent(reqs, kind, pkg) == [reqs EXCEPT ![<< kind, pkg >>] = @ + 1]

\* main: the loop over enumerate(packages, start=1) building tasks
RECURSIVE MakeTasks(_, _, _)
MakeTasks(pkgs, i, done) ==
    IF i > Len(pkgs) THEN << >>
    ELSE IF IsSkipped(pkgs[i], done) THEN MakeTasks(pkgs, i + 1, done)
    ELSE << Task(pkgs[i], i) >> \o MakeTasks(pkgs, i + 1, done)

\* main: the value of skipped after the loop
RECURSIVE CountSkipped(_, _, _)
CountSkipped(pkgs, i, done) ==
    IF i > Len(pkgs) THEN 0
    ELSE (IF IsSkipped(pkgs[i], done) THEN 1 ELSE 0) + CountSkipped(pkgs, i + 1, done)

Settled(t) == t.pc \in {"DONE", "FAILED"}

\* main() up to "await asyncio.gather(*tasks)"; every coroutine then runs to
\* its first await, the metadata request.  The connector's limit_per_host only
\* delays answers.  OUTPUT_FILE is taken to be readable and writable: an
\* OSError of the file is outside try/except and ends the run.
StartRun ==
    /\ mainPc \in {"idle", "finished"}
    /\ runs < MaxRuns
    /\ LET pk   == get_package_names(inputFile, MainMaxCount)
           done == load_processed_packages(outputExists, outputFile)
           ts   == MakeTasks(pk, 1, done)
       IN  /\ packages' = pk
           /\ processed' = done
           /\ skipped' = CountSkipped(pk, 1, done)
           /\ tasks' = ts
           /\ requests' = [kp \in RequestKinds \X Packages |->
                             IF kp[1] = "metadata"
                             THEN Cardinality({n \in 1..Len(ts) : ts[n].pkg = kp[2]})
                             ELSE 0]
    /\ startLen' = Len(outputFile)
    /\ runs' = runs + 1
    /\ mainPc' = "gather"
    /\ UNCHANGED << inputFile, outputExists, outputFile >>
    /\ UNCHANGED << archiveVars, releaseVars, namesVars, issueVars >>

\* fetch_latest_pypi_release resumes with the answer; on success
\* release_contains_py_typed issues the artifact request.
MetadataResponse(n, answer) ==
    /\ mainPc = "gather"
    /\ n \in 1..Len(tasks)
    /\ tasks[n].pc = "RESOLVING"
    /\ LET sel == SelectRelease(answer.releases)
       IN  IF \/ answer.exc
              \/ RaisesForStatus(answer.status)
              \/ ~answer.wellFormed
              \/ sel.raised
           THEN /\ tasks' = [tasks EXCEPT ![n].pc = "FAILED"]
                /\ UNCHANGED requests
           ELSE /\ tasks' = [tasks EXCEPT ![n].pc = "DOWNLOADING",
                                          ![n].release = sel.release]
                /\ requests' = Sent(requests, "download", tasks[n].pkg)
    /\ UNCHANGED << inputFile, outputExists, outputFile, mainPc, runs, packages,
                    processed, skipped, startLen >>
    /\ UNCHANGED << archiveVars, releaseVars, namesVars, issueVars >>

\* release_contains_py_typed resumes with the answer, opens and scans the body;
\* process_package then appends the row of a typed package, or issues the stub
\* lookup of an untyped one.
DownloadResponse(n, answer) ==
    /\ mainPc = "gather"
    /\ n \in 1..Len(tasks)
    /\ tasks[n].pc = "DOWNLOADING"
    /\ LET t    == tasks[n]
           seen == [exc |-> answer.exc, status |-> answer.status]
           scan == ScanBody(t.release, answer.body)
       IN  IF DownloadRaises(answer) \/ scan.raised
           THEN /\ tasks' = [tasks EXCEPT ![n].pc = "FAILED",
                                          ![n].release = NoRelease,
                                          ![n].download = seen]
                /\ UNCHANGED << requests, outputExists, outputFile >>
           ELSE IF NeedsStubLookup(scan.typed)
           THEN /\ tasks' = [tasks EXCEPT ![n].pc = "CHECKING_STUB",
                                          ![n].release = NoRelease,
                                          ![n].download = seen,
                                          ![n].scanned = TRUE,
                                          ![n].has_py_typed = PyBool(scan.typed),
                                          ![n].stubLookups = @ + 1]
                /\ requests' = Sent(requests, "stub", t.pkg)
                /\ UNCHANGED << outputExists, outputFile >>
           ELSE /\ outputFile' = append_result_to_csv(outputExists, outputFile, t.pkg,
                                                      PyBool(scan.typed), t.has_types_package)
                /\ outputExists' = TRUE
                /\ tasks' = [tasks EXCEPT ![n].pc = "DONE",
                                          ![n].release = NoRelease,
                                          ![n].download = seen,
                                          ![n].scanned = TRUE,
                                          ![n].has_py_typed = PyBool(scan.typed),
                                          ![n].rowAt = Len(outputFile')]
                /\ UNCHANGED requests
    /\ UNCHANGED << inputFile, mainPc, runs, packages, processed, skipped, startLen >>
    /\ UNCHANGED << archiveVars, releaseVars, namesVars, issueVars >>

\* has_types_stub_package resumes with the answer; process_package appends the row.
StubResponse(n, answer) ==
    /\ mainPc = "gather"
    /\ n \in 1..Len(tasks)
    /\ tasks[n].pc = "CHECKING_STUB"
    /\ LET t   == tasks[n]
           htp == has_types_stub_package(answer)
       IN  /\ outputFile' = append_result_to_csv(outputExists, outputFile, t.pkg,
                                                 t.has_py_typed, htp)
           /\ outputExists' = TRUE
           /\ tasks' = [tasks EXCEPT ![n].pc = "DONE",
                                     ![n].has_types_package = htp,
                                     ![n].stub = answer,
                                     ![n].rowAt = Len(outputFile')]
    /\ UNCHANGED << inputFile, mainPc, runs, packages, processed, skipped, requests,
                    startLen >>
    /\ UNCHANGED << archiveVars, releaseVars, namesVars, issueVars >>

\* gather returns when every coroutine has returned; main logs the final report.
FinishRun ==
    /\ mainPc = "gather"
    /\ \A n \in 1..Len(tasks) : Settled(tasks[n])
    /\ mainPc' = "finished"
    /\ UNCHANGED << inputFile, outputExists, outputFile, runs, packages, processed,
                    skipped, tasks, requests, startLen >>
    /\ UNCHANGED << archiveVars, releaseVars, namesVars, issueVars >>

(***************************************************************************)
(* The states before anything has run.                                     *)
(***************************************************************************)
ParseIdle ==
    /\ inputFile = << >>
    /\ outputExists = FALSE
    /\ outputFile = << >>
    /\ mainPc = "idle"
    /\ runs = 0
    /\ packages = << >>
    /\ processed = {}
    /\ skipped = 0
    /\ tasks = << >>
    /\ requests = NoRequests
    /\ startLen = 0

ReleaseIdle ==
    /\ releases = << >>
    /\ release_info = << >>

NamesIdle ==
    /\ csvRows = << >>
    /\ max_count = NoneCount
    /\ names_out = << >>

IssueIdle ==
    /\ original = {}
    /\ local = {}
    /\ issue = << >>
    /\ issue_body = << >>

(***************************************************************************)
(* Spec: runs of main() of parse_pypi.py over an input list and an output  *)
(* table that a previous run may have left.                                *)
(***************************************************************************)
\* Output tables without duplicates: no file, or the header and one row each
\* for some packages.
InitialTables ==
    { << FALSE, << >> >> }
      \cup { << TRUE, << HeaderRow >> \o [k \in 1..Len(q) |-> CsvRow(q[k], "False", "None")] >> :
               q \in {r \in SeqsUpTo(Packages, Cardinality(Packages)) : NoDuplicates(r)} }

Init ==
    /\ inputFile \in SeqsUpTo(Packages, MaxInputLen)
    /\ \E tbl \in InitialTables : outputExists = tbl[1] /\ outputFile = tbl[2]
    /\ mainPc = "idle"
    /\ runs = 0
    /\ packages = << >>
    /\ processed = {}
    /\ skipped = 0
    /\ tasks = << >>
    /\ requests = NoRequests
    /\ startLen = 0
    /\ ArchiveIdle /\ ReleaseIdle /\ NamesIdle /\ IssueIdle

Next ==
    \/ StartRun
    \/ \E n \in 1..MaxInputLen, answer \in MetadataAnswers : MetadataResponse(n, answer)
    \/ \E n \in 1..MaxInputLen, answer \in DownloadAnswers : DownloadResponse(n, answer)
    \/ \E n \in 1..MaxInputLen, answer \in StubAnswers : StubResponse(n, answer)
    \/ FinishRun

Spec == Init /\ [][Next]_vars

\* Every request of the session ends, with an answer or with a timeout error
\* (aiohttp's total timeout), and gather returns once all coroutines have.
Responses ==
    \/ \E n \in 1..MaxInputLen, answer \in MetadataAnswers : MetadataResponse(n, answer)
    \/ \E n \in 1..MaxInputLen, answer \in DownloadAnswers : DownloadResponse(n, answer)
    \/ \E n \in 1..MaxInputLen, answer \in StubAnswers : StubResponse(n, answer)

FairSpec == Spec /\ WF_vars(Responses) /\ WF_vars(FinishRun)

(***************************************************************************)
(* SpecArchive: archives of up to MaxEntries members, as a zip and as a    *)
(* tar, given to all_py_files_in_source_are_in_py_typed_dirs.              *)
(***************************************************************************)
InitArchive ==
    /\ source = << >>
    /\ sourceKind \in {"zip", "tar"}
    /\ typedResult = << >>
    /\ ParseIdle /\ ReleaseIdle /\ NamesIdle /\ IssueIdle

NextArchive ==
    \/ \E e \in EntryUniverse : AddEntry(e)
    \/ ScanSource

SpecArchive == InitArchive /\ [][NextArchive]_vars

(***************************************************************************)
(* SpecRelease: release lists of up to MaxReleases descriptors.            *)
(***************************************************************************)
InitRelease ==
    /\ releases = << >>
    /\ release_info = << >>
    /\ ParseIdle /\ ArchiveIdle /\ NamesIdle /\ IssueIdle

NextRelease ==
    \/ \E r \in ReleaseUniverse : AddRelease(r)
    \/ ResolveRelease

SpecRelease == InitRelease /\ [][NextRelease]_vars

(***************************************************************************)
(* SpecNames: get_package_names on files of up to MaxRows rows and on      *)
(* files about as long as the max_count main passes.                       *)
(***************************************************************************)
LongFile(n) == [k \in 1..n |-> IF k % 2 = 0 THEN "a" ELSE "b"]

InitNames ==
    /\ csvRows \in SeqsUpTo(Packages, MaxRows)
                     \cup {LongFile(n) : n \in (MainMaxCount - 1)..(MainMaxCount + 2)}
    /\ max_count \in {NoneCount} \cup (0..MaxCountArg) \cup {MainMaxCount}
    /\ names_out = << >>
    /\ ParseIdle /\ ArchiveIdle /\ ReleaseIdle /\ IssueIdle

NextNames == CallGetPackageNames

SpecNames == InitNames /\ [][NextNames]_vars

(***************************************************************************)
(* SpecIssue: main() of detect_projects.py.  The remote list is an initial *)
(* stretch of the universe, the local table holds up to two of its names,  *)
(* and the tracker holds no issue, the labelled issue, or an unlabelled    *)
(* issue of the same title.                                                *)
(***************************************************************************)
SmallSubsets(S) == {{}} \cup {{x, y} : x \in S, y \in S}

InitIssue ==
    /\ \E hi \in 0..MaxProjects : original = 1..hi
    /\ local \in SmallSubsets(Projects)
    /\ issue \in { << >>, << Issue(TRUE, TRUE, << >>) >>, << Issue(TRUE, FALSE, << >>) >> }
    /\ issue_body = << >>
    /\ ParseIdle /\ ArchiveIdle /\ ReleaseIdle /\ NamesIdle

NextIssue == DetectMain

SpecIssue == InitIssue /\ [][NextIssue]_vars

(***************************************************************************)
(* Properties of the runs of main() (Spec, FairSpec).                      *)
(***************************************************************************)
\* The data lines of OUTPUT_FILE that name package p: all of them, those the
\* run found when it started, and those appended since.
RowsFor(p) == {k \in 2..Len(outputFile) : outputFile[k][1] = p}

StartRows(p) == {k \in RowsFor(p) : k <= startLen}

NewRows(p) == {k \in RowsFor(p) : k > startLen}

TaskIds == 1..Len(tasks)

TasksFor(p) == {n \in TaskIds : tasks[n].pkg = p}

\* C1: whatever the input list (a package may be named twice) and whatever
\* duplicate-free table the first run found, the output table never holds two
\* rows for one package.
C1_AtMostOneRowPerPackage ==
    \A p \in Packages : Cardinality(RowsFor(p)) <= 1

\* C2: idempotent resumption.  In a run, the processed set is the set of
\* packages that had a row when the run started; for such a package no task
\* exists, no metadata, download or stub request has been issued, and no row
\* has been appended.
C2_IdempotentResumption ==
    mainPc # "idle" =>
        /\ processed = {p \in Packages : StartRows(p) # {}}
        /\ \A p \in Packages :
               StartRows(p) # {} =>
                   /\ TasksFor(p) = {}
                   /\ \A kind \in RequestKinds : requests[<< kind, p >>] = 0
                   /\ NewRows(p) = {}

\* C2's case: a run has finished in which a listed package was skipped because
\* of its row, while another package was classified and its row appended.
C2_Witness ==
    /\ mainPc = "finished"
    /\ \E p \in Packages : StartRows(p) # {} /\ p \in Range(inputFile)
    /\ \E n \in TaskIds : tasks[n].pc = "DONE"
    /\ skipped > 0

\* C3: a package with a failed task has no row written in this run.
C3_FailedPackageHasNoRow ==
    \A n \in TaskIds : tasks[n].pc = "FAILED" => NewRows(tasks[n].pkg) = {}

\* C3, task by task: a failed task has written no row, and when the input list
\* names no package twice the package of a failed task has no row of this run.
C3_FailedTaskWritesNoRow ==
    \A n \in TaskIds :
        tasks[n].pc = "FAILED" =>
            /\ tasks[n].rowAt = 0
            /\ NoDuplicates(inputFile) => NewRows(tasks[n].pkg) = {}

\* C3, the other tasks and the run: every task reaches its outcome and the run
\* its final report, whichever tasks fail.
C3_RunFinishes ==
    /\ mainPc = "gather" ~> mainPc = "finished"
    /\ [](mainPc = "finished" => \A n \in TaskIds : Settled(tasks[n]))

\* C3, the next run: a package whose task failed and that has no row is given a
\* task again when main() runs next.
C3_FailedIsRescheduled ==
    [][(mainPc = "finished" /\ mainPc' = "gather") =>
           \A n \in TaskIds :
               (tasks[n].pc = "FAILED" /\ RowsFor(tasks[n].pkg) = {}) =>
                   \E m \in 1..Len(tasks') : tasks'[m].pkg = tasks[n].pkg]_vars

\* An answer that arrived with a status outside 2xx.
Non2xx(answer) == (~answer.exc) /\ answer.status # 0 /\ answer.status \notin 200..299

\* C4: a download answered with a status outside 2xx ends in FAILED: the body
\* is not scanned and the task writes no row.
C4_Non2xxDownloadFails ==
    \A n \in TaskIds :
        Non2xx(tasks[n].download) =>
            /\ tasks[n].pc = "FAILED"
            /\ ~tasks[n].scanned
            /\ tasks[n].rowAt = 0

\* Every stub request of the run belongs to a task whose scan returned false.
StubRequestsAccounted ==
    \A p \in Packages :
        requests[<< "stub", p >>] =
            Cardinality({n \in TasksFor(p) : tasks[n].has_py_typed = "False"})

\* C7: a task whose scan returned true is DONE, has made no stub lookup (no
\* stub request of the run is its), and its row is (package, True, unknown).
C7_TypedGoesStraightToDone ==
    /\ StubRequestsAccounted
    /\ \A n \in TaskIds :
           tasks[n].has_py_typed = "True" =>
               /\ tasks[n].pc = "DONE"
               /\ tasks[n].stubLookups = 0
               /\ tasks[n].stub = NoAnswer
               /\ tasks[n].rowAt > startLen
               /\ tasks[n].rowAt <= Len(outputFile)
               /\ outputFile[tasks[n].rowAt] = << tasks[n].pkg, "True", "" >>

\* C7's case: a typed package has been classified.
C7_Witness ==
    \E n \in TaskIds : tasks[n].has_py_typed = "True" /\ tasks[n].pc = "DONE"

\* The has_types_package field the claim gives for a stub answer.
ClaimedStubField(answer) ==
    IF answer.exc THEN ""
    ELSE CASE answer.status = 200 -> "True"
           [] answer.status = 404 -> "False"
           [] OTHER               -> ""

\* C8: a task whose scan returned false has made exactly one stub lookup and
\* is either waiting for its answer, any answer (200, 404, another status, an
\* exception) being accepted, or DONE with the row (package, False, true |
\* false | unknown) that the answer gives; it is never FAILED.
C8_UntypedAlwaysDone ==
    /\ StubRequestsAccounted
    /\ \A n \in TaskIds :
           tasks[n].has_py_typed = "False" =>
               /\ tasks[n].stubLookups = 1
               /\ \/ /\ tasks[n].pc = "CHECKING_STUB"
                     /\ tasks[n].rowAt = 0
                     /\ \A answer \in StubAnswers : ENABLED StubResponse(n, answer)
                  \/ /\ tasks[n].pc = "DONE"
                     /\ tasks[n].rowAt > startLen
                     /\ tasks[n].rowAt <= Len(outputFile)
                     /\ outputFile[tasks[n].rowAt] =
                            << tasks[n].pkg, "False", ClaimedStubField(tasks[n].stub) >>

\* C8, progress: with every request answered, a task waiting for its stub
\* lookup gets to DONE.
C8_StubLookupEnds ==
    \A n \in 1..MaxInputLen :
        (n \in TaskIds /\ tasks[n].pc = "CHECKING_STUB")
            ~> (n \in TaskIds /\ tasks[n].pc = "DONE")

\* C8's case: untyped packages are DONE after a stub lookup that was answered
\* with another status, and after one that raised.
C8_Witness ==
    /\ \E n \in TaskIds :
           /\ tasks[n].pc = "DONE" /\ tasks[n].has_py_typed = "False"
           /\ tasks[n].stub = HttpStatus(500)
    /\ \E n \in TaskIds :
           /\ tasks[n].pc = "DONE" /\ tasks[n].has_py_typed = "False"
           /\ tasks[n].stub.exc

(***************************************************************************)
(* Properties of the evaluator (SpecArchive).                              *)
(***************************************************************************)
Members == Range(source)

\* Directory d is an ancestor of the file at path: its direct parent or higher.
IsAncestorDir(d, path) ==
    /\ Len(d) < Len(path)
    /\ \A k \in 1..Len(d) : d[k] = path[k]

NamedPyTyped(e) == PathName(e.path) = "py.typed"

CountedSource(e) ==
    /\ PathSuffix(e.path) \in {".py", ".pyi"}
    /\ ~(PathName(e.path) = "__init__.py" /\ e.size = 0)

\* The three conditions over the members `files` that count as files.
TypedAsStated(files) ==
    LET markers == {e \in files : NamedPyTyped(e)}
        sources == {e \in files : CountedSource(e)}
    IN  /\ markers # {}
        /\ sources # {}
        /\ \A src \in sources :
               \E m \in markers : IsAncestorDir(PathParent(m.path), src.path)

NonDirectories == {e \in Members : e.type # "dir"}

RegularFiles == {e \in Members : e.type = "file"}

SameAnswerZipTar ==
    all_py_files_in_source_are_in_py_typed_dirs("zip", source)
        = all_py_files_in_source_are_in_py_typed_dirs("tar", source)

\* C5 as stated: for a zip and for a tar the evaluator returns true exactly
\* when a py.typed file exists, a counted source file exists and every counted
\* source file lies under the directory of some py.typed file, the files being
\* the non-directory members; and a zip and a tar of the same members agree.
C5_AsStated ==
    typedResult # << >> =>
        /\ typedResult[1] <=> TypedAsStated(NonDirectories)
        /\ SameAnswerZipTar

\* C5 amended: the same, the files of a tar being its regular-file members
\* only (links count neither as source files nor as py.typed files); a zip and
\* a tar of the same members agree when no member is a link.
C5_RegularFilesOfTar ==
    typedResult # << >> =>
        /\ typedResult[1] <=>
               TypedAsStated(IF sourceKind = "zip" THEN NonDirectories ELSE RegularFiles)
        /\ (\A e \in Members : e.type # "link") => SameAnswerZipTar

\* C5's case: the evaluator returned true for an archive that holds a
\* zero-size __init__.py outside every py.typed directory.
C5_Witness ==
    /\ typedResult = << TRUE >>
    /\ \E e \in Members :
           /\ e.type = "file" /\ PathName(e.path) = "__init__.py" /\ e.size = 0
           /\ \A m \in Members :
                  NamedPyTyped(m) => ~IsAncestorDir(PathParent(m.path), e.path)

(***************************************************************************)
(* Properties of the release selection (SpecRelease).                      *)
(***************************************************************************)
HasType(list, packagetype) == \E k \in 1..Len(list) : list[k].packagetype = packagetype

\* C6: from a list holding a wheel or a source distribution, a wheel is
\* selected when the list holds one, and otherwise a source distribution.
C6_WheelElseSdist ==
    (release_info # << >> /\ (HasType(releases, "bdist_wheel") \/ HasType(releases, "sdist"))) =>
        /\ ~release_info[1].raised
        /\ release_info[1].release.packagetype =
               (IF HasType(releases, "bdist_wheel") THEN "bdist_wheel" ELSE "sdist")

\* C6, what the selection does: a wheel when the list holds one, and otherwise
\* the last descriptor of the list, whatever its type.
C6_WheelElseLast ==
    (release_info # << >> /\ releases # << >>) =>
        /\ ~release_info[1].raised
        /\ IF HasType(releases, "bdist_wheel")
           THEN release_info[1].release.packagetype = "bdist_wheel"
           ELSE release_info[1].release = releases[Len(releases)]

(***************************************************************************)
(* Properties of get_package_names (SpecNames).                            *)
(***************************************************************************)
\* C10: with max_count = n the list returned is the first min(n, rows) rows of
\* the file, so at most n names (at most 100 for main).
C10_AtMostMaxCount ==
    (names_out # << >> /\ max_count # NoneCount) =>
        /\ Len(names_out[1]) <= max_count
        /\ names_out[1] = SubSeq(csvRows, 1, Min(max_count, Len(csvRows)))

\* C10, what the loop does: rows 0..max_count pass the test, one more than
\* max_count.
C10_AtMostMaxCountPlusOne ==
    (names_out # << >> /\ max_count # NoneCount) =>
        names_out[1] = SubSeq(csvRows, 1, Min(max_count + 1, Len(csvRows)))

(***************************************************************************)
(* Properties of the issue body (SpecIssue).                               *)
(***************************************************************************)
ItemLines(body) == {k \in 1..Len(body) : body[k].kind = "item"}

MoreLines(body) == {k \in 1..Len(body) : body[k].kind = "more"}

\* C9: for n discovered names the body lists the min(n, 20) smallest names in
\* ascending order, and ends with "... and (n - 20) more." exactly when n > 20.
C9_IssueComposition ==
    issue_body # << >> =>
        LET body   == issue_body[1]
            n      == Cardinality(NewPackages)
            shown  == Min(n, 20)
            listed == {body[k].n : k \in ItemLines(body)}
        IN  /\ n > 0
            /\ ItemLines(body) = 2..(shown + 1)
            /\ \A k \in 2..shown : body[k].n < body[k + 1].n
            /\ listed \subseteq NewPackages
            /\ \A x \in NewPackages \ listed : \A y \in listed : y < x
            /\ IF n > 20
               THEN /\ Len(body) = shown + 2
                    /\ body[Len(body)] = Line("more", n - 20)
               ELSE /\ Len(body) = shown + 1
                    /\ MoreLines(body) = {}
            /\ \E k \in 1..Len(issue) : issue[k].body = body

\* C9's case: a body was composed for more than 20 names, some of the
\* universe's names being left out of the discovered set.
C9_Witness ==
    /\ issue_body # << >>
    /\ Cardinality(NewPackages) > 20
    /\ \E x \in local : x \in original /\ x < 20
=============================================================================
